---- MODULE Spec2Model ----
(***************************************************************************)
(* Healthcare Translator front end (src/frontend/App.js): the capture and  *)
(* translate session of the App component as a state machine.              *)
(*                                                                         *)
(* Text is modelled as a sequence of one-character strings, so that        *)
(* String.prototype.trim and string concatenation are computed, not        *)
(* assumed.  Each handler is one action (React runs a handler to           *)
(* completion and commits its state updates before the next event).        *)
(* A handler reads the state of the render that created it: the on-result  *)
(* callback of a recognition object therefore reads the transcript that    *)
(* was current when startListening ran (field closure of the object).      *)
(***************************************************************************)
EXTENDS Integers, Sequences, FiniteSets, TLC

\* ------------------------------------------------------------------ bounds
\* recognition objects that exist at the same time (started, not yet ended)
MaxHandles == 2
\* length of the result list of one recognition session
MaxResults == 2
\* translate requests outstanding at the same time
MaxRequests == 2
\* length of the transcript a capture session may start from
MaxBase == 1

\* ------------------------------------------------------------- constants
BACKEND == "http://127.0.0.1:8000"

DefaultLang == "fr"

MsgNoSR == "Your browser doesn't support microphone speech recognition. Please use Chrome."

MsgNoText == "Please speak first - no text to translate."

MsgTranslationFailed == "Translation failed."

MsgServerError == "Server error. Is the backend running?"

NoAlert == "none"

\* ---------------------------------------------------- environment's inputs
\* texts a recognition result may carry
SegmentTexts == {<<>>, <<"a">>}

Segments == [transcript : SegmentTexts, isFinal : BOOLEAN]

\* bodies the language endpoint may answer with (data.languages)
Catalogs == {<<>>, <<"es", "de">>}

\* success bodies of the translate endpoint: <<translated_text, audio_url>>
SuccessBodies == {<<"bonjour le monde", "/audio/1.mp3">>, <<"hola", "/audio/2.mp3">>}

\* values of the error field of a failure body; "" is a string too
ErrorTexts == {"tts failed", ""}

\* what one fetch of /translate_tts may end with:
\*   settled = FALSE : fetch rejects (transport error)
\*   parsable = FALSE: res.json() rejects (body is not JSON)
\*   ok              : res.ok
\*   hasError/error  : data.error; translated_text, audio_url: the success body
Responses ==
    { [settled |-> TRUE, parsable |-> TRUE, ok |-> TRUE, hasError |-> FALSE,
       error |-> "", translated_text |-> b[1], audio_url |-> b[2]]
        : b \in SuccessBodies }
    \cup
    { [settled |-> TRUE, parsable |-> TRUE, ok |-> FALSE, hasError |-> TRUE,
       error |-> e, translated_text |-> "", audio_url |-> ""]
        : e \in ErrorTexts }
    \cup
    { [settled |-> TRUE, parsable |-> TRUE, ok |-> FALSE, hasError |-> FALSE,
       error |-> "", translated_text |-> "", audio_url |-> ""],
      [settled |-> TRUE, parsable |-> FALSE, ok |-> FALSE, hasError |-> FALSE,
       error |-> "", translated_text |-> "", audio_url |-> ""],
      [settled |-> FALSE, parsable |-> FALSE, ok |-> FALSE, hasError |-> FALSE,
       error |-> "", translated_text |-> "", audio_url |-> ""] }

\* a result event as onresult reads it: event.resultIndex and event.results
NoEvent == [resultIndex |-> 0, results |-> <<>>]

NoResponse ==
    [settled |-> FALSE, parsable |-> FALSE, ok |-> FALSE, hasError |-> FALSE,
     error |-> "none", translated_text |-> "", audio_url |-> ""]

\* --------------------------------------------------------- pure functions
IsSpace(c) == c = " "

RECURSIVE TrimStart(_)
TrimStart(s) ==
    IF s = <<>> THEN s
    ELSE IF IsSpace(Head(s)) THEN TrimStart(Tail(s)) ELSE s

RECURSIVE TrimEnd(_)
TrimEnd(s) ==
    IF s = <<>> THEN s
    ELSE IF IsSpace(s[Len(s)]) THEN TrimEnd(SubSeq(s, 1, Len(s) - 1)) ELSE s

\* String.prototype.trim
Trim(s) == TrimEnd(TrimStart(s))

\* the guard of handleTranslate: !transcript.trim()
BlankIdentity(s) == s = <<>>
Blank(s) == Trim(s) = <<>>

\* the loop of recognition.onresult: i is the 0-based index of the source
RECURSIVE MergeLoop(_, _, _, _)
MergeLoop(results, i, finalText, interim) ==
    IF i >= Len(results) THEN [finalText |-> finalText, interim |-> interim]
    ELSE LET res == results[i + 1] IN
         IF res.isFinal
         THEN MergeLoop(results, i + 1, finalText \o res.transcript \o <<" ">>, interim)
         ELSE MergeLoop(results, i + 1, finalText, interim \o res.transcript)

\* data.error || "Translation failed."
ErrorMessageGeneric(data) == MsgTranslationFailed
ErrorMessage(data) ==
    IF data.hasError /\ data.error # "" THEN data.error ELSE MsgTranslationFailed

\* `${BACKEND}${data.audio_url}`
AudioUrlBare(data) == data.audio_url
AudioUrlOf(data) == BACKEND \o data.audio_url

IsPrefix(s, t) == Len(s) <= Len(t) /\ SubSeq(t, 1, Len(s)) = s

\* ------------------------------------------------------------------ state
VARIABLES
    listening,       \* useState(false)
    transcript,      \* useState("")
    translated,      \* useState("")
    audioUrl,        \* useState("")
    languages,       \* useState([]): the codes of the catalog, in order
    targetLang,      \* useState("fr")
    loading,         \* useState(false)
    recognitionRef,  \* useRef(null): 0 is null, else a recognition object
    recognitions,    \* the SpeechRecognition objects that have not ended yet
    inflight,        \* the fetches of /translate_tts that have not settled yet
    langFetch,       \* the fetch of /languages of the mount effect
    srAvailable,     \* window.SpeechRecognition || window.webkitSpeechRecognition
    finalLen,        \* length of finalText in the transcript last written
    lastOp           \* the handler that ran last, its input and its alert

vars == <<listening, transcript, translated, audioUrl, languages, targetLang,
          loading, recognitionRef, recognitions, inflight, langFetch,
          srAvailable, finalLen, lastOp>>

\* the fields of the session a presentation layer renders
sessionFields == <<transcript, translated, audioUrl, listening, loading, targetLang>>

captureVars == <<listening, recognitionRef, recognitions>>

translationVars == <<translated, audioUrl, loading, inflight>>

Handles == 1 .. MaxHandles

\* a slot with no live object: never created, or ended
NoRecognition == [status |-> "none", closure |-> <<>>, len |-> 0, fixed |-> 0]

\* an object that was stopped or has failed and whose end event is still to
\* come; its source delivers no further result
Closing(status) == [status |-> status, closure |-> <<>>, len |-> 0, fixed |-> 0]

Op(name, h, resp, stale, alert) ==
    [op |-> name, h |-> h, event |-> NoEvent, resp |-> resp, stale |-> stale,
     prev |-> "", alert |-> alert]

Init ==
    /\ listening = FALSE
    /\ transcript = <<>>
    /\ translated = ""
    /\ audioUrl = ""
    /\ languages = <<>>
    /\ targetLang = DefaultLang
    /\ loading = FALSE
    /\ recognitionRef = 0
    /\ recognitions = [h \in Handles |-> NoRecognition]
    /\ inflight = <<>>
    /\ langFetch = "pending"
    /\ srAvailable \in BOOLEAN
    /\ finalLen = 0
    /\ lastOp = Op("mount", 0, NoResponse, FALSE, NoAlert)

\* ----------------------------------------------------- language catalog
\* useEffect, lines 19-24: data.languages || [] on success, [] on failure
LanguagesLoaded ==
    /\ langFetch = "pending"
    /\ \E cat \in Catalogs :
         /\ languages' = cat
         /\ langFetch' = "done"
    /\ lastOp' = Op("languages", 0, NoResponse, FALSE, NoAlert)
    /\ UNCHANGED <<listening, transcript, translated, audioUrl, targetLang, loading,
                   recognitionRef, recognitions, inflight, srAvailable, finalLen>>

\* <select onChange>: the options are the codes of the catalog
SelectLanguage ==
    /\ \E k \in 1 .. Len(languages) : targetLang' = languages[k]
    /\ lastOp' = Op("selectLanguage", 0, NoResponse, FALSE, NoAlert)
    /\ UNCHANGED <<listening, transcript, translated, audioUrl, languages, loading,
                   recognitionRef, recognitions, inflight, langFetch, srAvailable,
                   finalLen>>

\* ------------------------------------------------------------- capture
FreeHandles == {h \in Handles : recognitions[h].status = "none"}

NewHandle == CHOOSE h \in FreeHandles : \A g \in FreeHandles : h <= g

\* recognition.stop() on object h of the table recs
Stopped(recs, h) ==
    IF h # 0 /\ recs[h].status = "active"
    THEN [recs EXCEPT ![h] = Closing("stopping")]
    ELSE recs

\* const SR = window.SpeechRecognition || window.webkitSpeechRecognition;
\* if (!SR) ..., lines 27-28
CapableAlways == TRUE
Capable == srAvailable

\* startListening, lines 26-54
startListening ==
    IF ~Capable
    THEN /\ lastOp' = Op("startListening", 0, NoResponse, FALSE, MsgNoSR)
         /\ UNCHANGED <<listening, transcript, translated, audioUrl, languages,
                        targetLang, loading, recognitionRef, recognitions, inflight,
                        langFetch, srAvailable, finalLen>>
    ELSE /\ FreeHandles # {}
         /\ Len(transcript) <= MaxBase
         /\ recognitions' = [recognitions EXCEPT ![NewHandle] =
                [status |-> "active", closure |-> transcript, len |-> 0, fixed |-> 0]]
         /\ recognitionRef' = NewHandle
         /\ listening' = TRUE
         /\ lastOp' = Op("startListening", NewHandle, NoResponse, FALSE, NoAlert)
         /\ UNCHANGED <<transcript, translated, audioUrl, languages, targetLang,
                        loading, inflight, langFetch, srAvailable, finalLen>>

\* the body of stopListening, lines 56-62, on the table recs
StopListeningBody(recs) ==
    /\ recognitions' = Stopped(recs, recognitionRef)
    /\ recognitionRef' = 0
    /\ listening' = FALSE

\* stopListening called from the Stop button
stopListeningAndReset ==
    /\ StopListeningBody(recognitions)
    /\ loading' = FALSE
    /\ lastOp' = Op("stopListening", recognitionRef, NoResponse, FALSE, NoAlert)
    /\ UNCHANGED <<transcript, translated, audioUrl, languages, targetLang,
                   inflight, langFetch, srAvailable, finalLen>>
stopListening ==
    /\ StopListeningBody(recognitions)
    /\ lastOp' = Op("stopListening", recognitionRef, NoResponse, FALSE, NoAlert)
    /\ UNCHANGED <<transcript, translated, audioUrl, languages, targetLang, loading,
                   inflight, langFetch, srAvailable, finalLen>>

\* what recognition.onresult writes, lines 37-46: finalText starts from the
\* transcript of the render that created the callback
OnResultMergeCurrent(closure, event) ==
    MergeLoop(event.results, event.resultIndex, transcript, <<>>)
OnResultMergeFromStart(closure, event) ==
    MergeLoop(event.results, 0, closure, <<>>)
OnResultMerge(closure, event) ==
    MergeLoop(event.results, event.resultIndex, closure, <<>>)

\* the handler of object h run on event
onresult(h, event, name) ==
    LET m == OnResultMerge(recognitions[h].closure, event) IN
    /\ transcript' = m.finalText \o m.interim
    /\ finalLen' = Len(m.finalText)
    /\ lastOp' = [Op(name, h, NoResponse, FALSE, NoAlert) EXCEPT !.event = event]
    /\ UNCHANGED <<listening, translated, audioUrl, languages, targetLang, loading,
                   recognitionRef, inflight, langFetch, srAvailable>>

\* the sequences of at least one and at most n segments
RECURSIVE SegSeqs(_)
SegSeqs(n) ==
    IF n <= 0 THEN {}
    ELSE {<<g>> : g \in Segments}
         \cup {Append(s, g) : s \in SegSeqs(n - 1), g \in Segments}

\* a result the source delivered in an earlier event, which onresult must
\* not read again; its text is not kept
Earlier(isFinal) == [transcript |-> <<"#">>, isFinal |-> isFinal]

\* event.results: the i results below event.resultIndex, of which those below
\* fixed may be final, then the new ones
EventOf(i, tail, fixed) ==
    [resultIndex |-> i, results |-> [k \in 1 .. i |-> Earlier(k <= fixed)] \o tail]

\* one more than the position of the last final result of the list
RECURSIVE LastFinal(_)
LastFinal(results) ==
    IF results = <<>> THEN 0
    ELSE IF results[Len(results)].isFinal THEN Len(results)
    ELSE LastFinal(SubSeq(results, 1, Len(results) - 1))

\* the source of object h emits a result event: the results from index i on
\* are new or revised, a final result is never revised (i >= fixed), and
\* onresult runs.  Of the list of the object only its length and the end of
\* its final results are kept: onresult does not read below resultIndex.
SourceResult ==
    \E h \in Handles :
      /\ recognitions[h].status = "active"
      /\ \E i \in recognitions[h].fixed .. recognitions[h].len :
           \E tail \in SegSeqs(MaxResults - i) :
             /\ recognitions' = [recognitions EXCEPT
                    ![h].len = i + Len(tail),
                    ![h].fixed = IF LastFinal(tail) = 0 THEN @ ELSE i + LastFinal(tail)]
             /\ onresult(h, EventOf(i, tail, recognitions[h].fixed), "onresult")

\* the event delivered last is delivered to the same handler once more
SourceResultAgain ==
    /\ lastOp.op \in {"onresult", "onresultAgain"}
    /\ recognitions[lastOp.h].status = "active"
    /\ recognitions' = recognitions
    /\ onresult(lastOp.h, lastOp.event, "onresultAgain")

\* recognition.onerror = () => stopListening(), line 48
SourceError ==
    \E h \in Handles :
      /\ recognitions[h].status \in {"active", "stopping"}
      /\ StopListeningBody([recognitions EXCEPT ![h] = Closing("errored")])
      /\ lastOp' = Op("onerror", h, NoResponse, FALSE, NoAlert)
      /\ UNCHANGED <<transcript, translated, audioUrl, languages, targetLang, loading,
                     inflight, langFetch, srAvailable, finalLen>>

\* recognition.onend = () => setListening(false), line 49
SourceEnd ==
    \E h \in Handles :
      /\ recognitions[h].status \in {"active", "stopping", "errored"}
      /\ recognitions' = [recognitions EXCEPT ![h] = NoRecognition]
      /\ listening' = FALSE
      /\ lastOp' = Op("onend", h, NoResponse, FALSE, NoAlert)
      /\ UNCHANGED <<recognitionRef, transcript, translated, audioUrl, languages, targetLang, loading,
                     inflight, langFetch, srAvailable, finalLen>>

\* ---------------------------------------------------------- translation
\* the requests outstanding before a newer submit or a clear are superseded
Superseded(reqs) == [k \in 1 .. Len(reqs) |-> [reqs[k] EXCEPT !.superseded = TRUE]]

\* JSON body of the POST, lines 77-81
RequestBodyTrimmed ==
    [text |-> Trim(transcript), target_lang |-> targetLang, source_lang |-> "auto",
     superseded |-> FALSE]
RequestBody ==
    [text |-> transcript, target_lang |-> targetLang, source_lang |-> "auto",
     superseded |-> FALSE]

\* setTranslated(""); setAudioUrl(""), lines 70-71: the value written over v
SubmitShownKept(v) == v
SubmitShown(v) == ""

\* handleTranslate up to its first await, lines 64-82
handleTranslate ==
    IF Blank(transcript)
    THEN /\ lastOp' = Op("handleTranslate", 0, NoResponse, FALSE, MsgNoText)
         /\ UNCHANGED <<listening, transcript, translated, audioUrl, languages,
                        targetLang, loading, recognitionRef, recognitions, inflight,
                        langFetch, srAvailable, finalLen>>
    ELSE /\ Len(inflight) < MaxRequests
         /\ loading' = TRUE
         /\ translated' = SubmitShown(translated)
         /\ audioUrl' = SubmitShown(audioUrl)
         /\ inflight' = Append(Superseded(inflight), RequestBody)
         /\ lastOp' = [Op("handleTranslate", Len(inflight) + 1, NoResponse, FALSE, NoAlert)
                         EXCEPT !.prev = translated]
         /\ UNCHANGED <<listening, transcript, languages, targetLang, recognitionRef,
                        recognitions, langFetch, srAvailable, finalLen>>

RemoveAt(seq, k) == SubSeq(seq, 1, k - 1) \o SubSeq(seq, k + 1, Len(seq))

\* the alert of the continuation, lines 83-91
CompletionAlert(resp) ==
    IF ~resp.settled \/ ~resp.parsable THEN MsgServerError
    ELSE IF ~resp.ok THEN ErrorMessage(resp)
    ELSE NoAlert

\* finally { setLoading(false) }, lines 92-94
LoadingAfterNoFinally(resp) ==
    IF resp.settled /\ resp.parsable /\ resp.ok THEN FALSE ELSE loading
LoadingAfterNoCatch(resp) ==
    IF resp.settled /\ resp.parsable THEN FALSE ELSE loading
LoadingAfter(resp) == FALSE

\* the state the continuation writes for a response, lines 83-94
ApplyResponse(resp) ==
    /\ IF resp.settled /\ resp.parsable /\ resp.ok
       THEN /\ translated' = resp.translated_text
            /\ audioUrl' = AudioUrlOf(resp)
       ELSE UNCHANGED <<translated, audioUrl>>
    /\ loading' = LoadingAfter(resp)

\* handleTranslate after its awaits, lines 83-94: request k settles with resp
TranslateSettled ==
    \E k \in 1 .. Len(inflight), resp \in Responses :
      /\ ApplyResponse(resp)
      /\ inflight' = RemoveAt(inflight, k)
      /\ lastOp' = Op("settled", k, resp, inflight[k].superseded, CompletionAlert(resp))
      /\ UNCHANGED <<listening, transcript, languages, targetLang, recognitionRef,
                     recognitions, langFetch, srAvailable, finalLen>>

\* clearAll, lines 97-101
clearAll ==
    /\ transcript' = <<>>
    /\ translated' = ""
    /\ audioUrl' = ""
    /\ finalLen' = 0
    /\ inflight' = Superseded(inflight)
    /\ lastOp' = Op("clearAll", 0, NoResponse, FALSE, NoAlert)
    /\ UNCHANGED <<listening, languages, targetLang, loading, recognitionRef,
                   recognitions, langFetch, srAvailable>>

\* ------------------------------------------------------- the rendered UI
\* lines 111-115: the Start button is rendered while not listening
ClickStart == ~listening /\ startListening

\* lines 111-115: the Stop button is rendered while listening
ClickStop == listening /\ stopListening

\* line 125: the Translate button is disabled while loading
ClickTranslate == ~loading /\ handleTranslate

\* line 129
ClickClear == clearAll

\* the user starts a capture session after the previous one has ended and
\* the transcript has been cleared
StartAlone == transcript = <<>> /\ FreeHandles = Handles /\ ClickStart

\* The translation session: every control and every completion, with one
\* capture session at a time feeding the transcript.
Next ==
    \/ StartAlone
    \/ ClickStop
    \/ ClickTranslate
    \/ ClickClear
    \/ SelectLanguage
    \/ LanguagesLoaded
    \/ SourceResult
    \/ SourceError
    \/ SourceEnd
    \/ TranslateSettled

Spec == Init /\ [][Next]_vars

\* the same session when the transport settles every request it was given:
\* fetch resolves or rejects, and the continuation of lines 83-94 runs
SpecFair == Spec /\ WF_vars(TranslateSettled)

\* handleTranslate called as an operation, whatever the Translate button shows
CallTranslate == handleTranslate

NextCalls ==
    \/ StartAlone
    \/ ClickStop
    \/ CallTranslate
    \/ ClickClear
    \/ SourceResult
    \/ SourceError
    \/ SourceEnd
    \/ TranslateSettled

SpecCalls == Init /\ [][NextCalls]_vars

\* The capture session: the controls and the source of every recognition
\* object, with overlapping objects and late callbacks.
NextCapture ==
    \/ ClickStart
    \/ ClickStop
    \/ ClickClear
    \/ SourceResult
    \/ SourceResultAgain
    \/ SourceError
    \/ SourceEnd

SpecCapture == Init /\ [][NextCapture]_vars

\* a capture session started after the previous recognition object has ended
StartSingle == FreeHandles = Handles /\ ClickStart

\* The transcript merge: one capture session at a time, started from any
\* transcript, with every result event and its repeated delivery.
NextMerge ==
    \/ StartSingle
    \/ ClickStop
    \/ ClickClear
    \/ SourceResult
    \/ SourceResultAgain
    \/ SourceError
    \/ SourceEnd

SpecMerge == Init /\ [][NextMerge]_vars

\* ================================================================ claims
\* the finalized part of the transcript, as onresult last wrote it
finalPrefix == SubSeq(transcript, 1, finalLen)

interimSuffix == SubSeq(transcript, finalLen + 1, Len(transcript))

\* the segments of an event from its resultIndex on
NewSegments(event) == SubSeq(event.results, event.resultIndex + 1, Len(event.results))

\* the texts of the final segments, each followed by one separator
RECURSIVE FinalTexts(_)
FinalTexts(segs) ==
    IF segs = <<>> THEN <<>>
    ELSE (IF Head(segs).isFinal THEN Head(segs).transcript \o <<" ">> ELSE <<>>)
         \o FinalTexts(Tail(segs))

\* the texts of the interim segments
RECURSIVE InterimTexts(_)
InterimTexts(segs) ==
    IF segs = <<>> THEN <<>>
    ELSE (IF Head(segs).isFinal THEN <<>> ELSE Head(segs).transcript)
         \o InterimTexts(Tail(segs))

HasFinal(segs) == \E k \in 1 .. Len(segs) : segs[k].isFinal

HasInterimText(segs) == \E k \in 1 .. Len(segs) : ~segs[k].isFinal /\ segs[k].transcript # <<>>

\* a text that is empty once trimmed of whitespace
AllSpace(s) == \A k \in 1 .. Len(s) : s[k] = " "

SettledOk(op) == op.op = "settled" /\ op.resp.settled /\ op.resp.parsable /\ op.resp.ok

SettledFailed(op) == op.op = "settled" /\ ~(op.resp.settled /\ op.resp.parsable /\ op.resp.ok)

\* C1: the response of a request superseded by clear() or by a newer submit
\* changes nothing: when the completion that ran last was that of a
\* superseded request, the translated text and the audio reference are empty.
StaleCompletionDiscarded ==
    (lastOp.op = "settled" /\ lastOp.stale) => (translated = "" /\ audioUrl = "")

\* C2: at most one translate request is outstanding in every reachable
\* state, also when handleTranslate is called while one is outstanding.
AtMostOnePending == Len(inflight) <= 1

\* C3: at most one recognition object is started and not stopped in every
\* reachable state.
AtMostOneListening ==
    Cardinality({h \in Handles : recognitions[h].status = "active"}) <= 1

\* C4: the finalized text before a result batch is a prefix of the finalized
\* text after it, for consecutive batches of one recognition object.
FinalPrefixAppendOnly ==
    [][(/\ lastOp.op \in {"onresult", "onresultAgain"}
        /\ lastOp'.op = "onresult"
        /\ lastOp'.h = lastOp.h)
       => IsPrefix(finalPrefix, finalPrefix')]_vars

\* C5: delivering the same result batch a second time in a row leaves the
\* transcript and its finalized part as the first delivery left them.
NoDoubleFinalization ==
    [][lastOp'.op = "onresultAgain"
       => (transcript' = transcript /\ finalLen' = finalLen)]_vars

\* a batch with a final segment of non-empty text has been delivered twice
RedeliveredFinal ==
    /\ lastOp.op = "onresultAgain"
    /\ \E k \in 1 .. Len(NewSegments(lastOp.event)) :
         /\ NewSegments(lastOp.event)[k].isFinal
         /\ NewSegments(lastOp.event)[k].transcript # <<>>
    /\ recognitions[lastOp.h].closure # <<>>

\* the batch of object h is the first of its session to hold a final
\* segment, and the session started from an empty transcript
FirstFinalBatch(h) ==
    /\ lastOp'.op = "onresult"
    /\ lastOp'.h = h
    /\ recognitions[h].closure = <<>>
    /\ recognitions[h].fixed = 0
    /\ HasFinal(NewSegments(lastOp'.event))

\* C6 as stated: after the first batch that holds final segments, whatever
\* interim-only batches came before, the transcript is exactly the final
\* segments' texts, each followed by one separator.
InterimBatchesIgnored ==
    [][\A h \in Handles :
         FirstFinalBatch(h) => transcript' = FinalTexts(NewSegments(lastOp'.event))]_vars

\* C6 amended: ... the transcript is the final segments' texts, each followed
\* by one separator, followed by the texts of the interim segments of that
\* batch; the interim suffix is empty when the batch has no interim text.
InterimBatchesIgnoredAmended ==
    [][\A h \in Handles :
         FirstFinalBatch(h) =>
           /\ transcript' = FinalTexts(NewSegments(lastOp'.event))
                              \o InterimTexts(NewSegments(lastOp'.event))
           /\ finalLen' = Len(FinalTexts(NewSegments(lastOp'.event)))
           /\ (~HasInterimText(NewSegments(lastOp'.event))
                 => transcript' = FinalTexts(NewSegments(lastOp'.event)))]_vars

\* an interim-only batch, then a batch that finalizes from index 1 on: the
\* transcript holds the final text and its separator only
FinalAfterInterim ==
    /\ lastOp.op = "onresult"
    /\ lastOp.event.resultIndex = 1
    /\ ~lastOp.event.results[1].isFinal
    /\ HasFinal(NewSegments(lastOp.event))
    /\ recognitions[lastOp.h].status = "active"
    /\ recognitions[lastOp.h].closure = <<>>
    /\ transcript = <<"a", " ">>

\* C7: translate triggered on a transcript that is empty once trimmed issues
\* no request and changes no field of the session.
EmptyInputGuard ==
    [][(lastOp'.op = "handleTranslate" /\ AllSpace(transcript))
       => (/\ UNCHANGED sessionFields
           /\ UNCHANGED inflight
           /\ lastOp'.alert = MsgNoText)]_vars

\* translate was refused on a transcript of whitespace, an earlier result
\* still showing
EmptyInputRefused ==
    /\ lastOp.op = "handleTranslate"
    /\ lastOp.alert = MsgNoText
    /\ transcript # <<>>
    /\ translated # ""
    /\ inflight = <<>>

\* C8: after the success response of the current request, the translated
\* text is the response's translated_text, the audio reference is the base
\* address followed by the response's audio_url, and loading is false.
SuccessOutcome ==
    (SettledOk(lastOp) /\ ~lastOp.stale) =>
      /\ translated = lastOp.resp.translated_text
      /\ audioUrl = BACKEND \o lastOp.resp.audio_url
      /\ ~loading

\* the scenario of the specification: bonjour le monde, /audio/1.mp3
SuccessApplied ==
    /\ SettledOk(lastOp)
    /\ ~lastOp.stale
    /\ translated = "bonjour le monde"
    /\ audioUrl = "http://127.0.0.1:8000/audio/1.mp3"
    /\ inflight = <<>>

\* C9 as stated: after a failure of the current request loading is false and
\* the message shown is the error field of the body when the body has one,
\* a generic message otherwise.
FailureOutcome ==
    (SettledFailed(lastOp) /\ ~lastOp.stale) =>
      /\ ~loading
      /\ lastOp.alert =
           IF lastOp.resp.settled /\ lastOp.resp.parsable /\ lastOp.resp.hasError
           THEN lastOp.resp.error
           ELSE IF lastOp.resp.settled /\ lastOp.resp.parsable
                THEN MsgTranslationFailed ELSE MsgServerError

\* C9 amended: ... the message shown is the error field of the body when the
\* body has one that is not the empty string, a generic message otherwise.
FailureOutcomeAmended ==
    (SettledFailed(lastOp) /\ ~lastOp.stale) =>
      /\ ~loading
      /\ lastOp.alert # NoAlert
      /\ lastOp.alert =
           IF lastOp.resp.settled /\ lastOp.resp.parsable
              /\ lastOp.resp.hasError /\ lastOp.resp.error # ""
           THEN lastOp.resp.error
           ELSE IF lastOp.resp.settled /\ lastOp.resp.parsable
                THEN MsgTranslationFailed ELSE MsgServerError

\* the scenario of the specification: a failure status with {error: "tts failed"}
FailureReported ==
    /\ SettledFailed(lastOp)
    /\ ~lastOp.stale
    /\ lastOp.resp.hasError
    /\ lastOp.alert = "tts failed"
    /\ ~loading

\* C10: the stored recognition object is non-null exactly when the session
\* is listening.
HandleIffListening == (recognitionRef # 0) <=> listening

\* the codes of the language catalog
CatalogCodes == {languages[k] : k \in 1 .. Len(languages)}

\* C11: an on-error or on-end callback of a recognition object that was
\* explicitly stopped changes nothing: the session fields, the stored
\* reference and every other recognition object stay as they were.
StaleCaptureCallbackDiscarded ==
    [][\A h \in Handles :
         (/\ recognitions[h].status = "stopping"
          /\ lastOp'.op \in {"onerror", "onend"}
          /\ lastOp'.h = h)
         => /\ UNCHANGED sessionFields
            /\ UNCHANGED recognitionRef
            /\ \A g \in Handles \ {h} : recognitions'[g] = recognitions[g]]_vars

\* C12: without the speech-recognition capability startListening shows its
\* message and changes nothing, and no recognition object ever exists.
CapabilityUnavailable ==
    [][~srAvailable =>
         /\ lastOp'.op = "startListening" =>
              /\ lastOp'.alert = MsgNoSR
              /\ UNCHANGED <<sessionFields, recognitionRef, recognitions, inflight>>
         /\ \A h \in Handles : recognitions'[h].status = "none"
         /\ ~listening'
         /\ recognitionRef' = 0]_vars

\* start was refused for lack of the capability, after the catalog loaded
StartRefused ==
    /\ ~srAvailable
    /\ lastOp.op = "startListening"
    /\ lastOp.alert = MsgNoSR
    /\ ~listening
    /\ recognitionRef = 0
    /\ languages # <<>>

\* C13: the transcript is empty right after clearAll, and the transcript the
\* next result batch writes holds that batch's final and interim text only.
ClearResetsTranscript ==
    [][/\ lastOp'.op = "clearAll" => transcript' = <<>>
       /\ (lastOp.op = "clearAll" /\ lastOp'.op = "onresult")
            => transcript' = FinalTexts(NewSegments(lastOp'.event))
                               \o InterimTexts(NewSegments(lastOp'.event))]_vars

\* C14: right after clearAll the translation request is idle: loading is
\* false and the translated text and the audio reference are empty.
ClearResetsTranslation ==
    lastOp.op = "clearAll" => (~loading /\ translated = "" /\ audioUrl = "")

\* C15: when the catalog is not empty the target language is one of its codes.
TargetLangInCatalog ==
    languages # <<>> => targetLang \in CatalogCodes

SubmitClearsResult ==
    (\/ inflight # <<>>
     \/ SettledFailed(lastOp)
     \/ (lastOp.op = "handleTranslate" /\ lastOp.alert = NoAlert))
    => (translated = "" /\ audioUrl = "")

\* a valid submit has just replaced a translation that was showing
SubmitReplacedResult ==
    /\ lastOp.op = "handleTranslate"
    /\ lastOp.alert = NoAlert
    /\ lastOp.prev # ""
    /\ inflight # <<>>
    /\ translated = ""
    /\ audioUrl = ""

\* what the requests carry to the service
Payloads(reqs) ==
    [k \in 1 .. Len(reqs) |->
       [text |-> reqs[k].text, target_lang |-> reqs[k].target_lang,
        source_lang |-> reqs[k].source_lang]]

\* C18: a valid submit issues exactly one request, carrying the transcript
\* and the target language of that moment and source_lang "auto"; no other
\* handler than a submit or a completion changes the requests outstanding.
PayloadIsSnapshot ==
    [][/\ (lastOp'.op = "handleTranslate" /\ ~AllSpace(transcript))
            => Payloads(inflight') = Append(Payloads(inflight),
                   [text |-> transcript, target_lang |-> targetLang,
                    source_lang |-> "auto"])
       /\ lastOp'.op \notin {"handleTranslate", "settled"}
            => Payloads(inflight') = Payloads(inflight)]_vars

\* the transcript and the target language changed while a request was out
SnapshotOutlived ==
    /\ inflight # <<>>
    /\ inflight[1].text # transcript
    /\ inflight[1].text # Trim(inflight[1].text)
    /\ inflight[1].target_lang # targetLang
    /\ loading

\* C19: when the transport settles every request, loading eventually becomes
\* false, and loading becomes false by a completion only.
PendingEndsOnDelivery ==
    /\ loading ~> ~loading
    /\ [][(loading /\ ~loading') => lastOp'.op = "settled"]_vars

\* loading ended on the transport-error path
TransportErrorEndedPending ==
    /\ lastOp.op = "settled"
    /\ ~lastOp.resp.settled
    /\ ~loading
    /\ inflight = <<>>

\* C20: startListening, stopListening and the error and end callbacks leave
\* the translation fields alone; handleTranslate and its completion leave
\* the transcript, the listening flag and the recognition objects alone.
CaptureTranslationIndependent ==
    [][/\ lastOp'.op \in {"startListening", "stopListening", "onerror", "onend"}
            => UNCHANGED <<translated, audioUrl, loading, targetLang, inflight>>
       /\ lastOp'.op \in {"handleTranslate", "settled"}
            => UNCHANGED <<transcript, listening, recognitionRef, recognitions>>]_vars

\* capture was stopped while a request was outstanding
StoppedWhilePending ==
    /\ lastOp.op = "stopListening"
    /\ loading
    /\ inflight # <<>>
    /\ ~listening

====
